---- MODULE Spec2Model ----
(***************************************************************************)
(* Model of src/src/feature_flags.py: the targeting engine, the flag       *)
(* registry (FeatureFlagManager), the kill switch and the A/B testing      *)
(* engine.                                                                 *)
(*                                                                         *)
(* Representation.                                                         *)
(*   - A float that holds a fraction (rollout_percentage, split, the hash  *)
(*     bucket (h % 100) / 100.0, the gradual target) is an integer number  *)
(*     of thousandths: 0.05 is 50, 1.0 is 1000, bucket b is b * 10.        *)
(*   - datetime values are whole hours on one clock, `now`.                *)
(*   - A conversion rate and the lift of get_results are exact fractions   *)
(*     in lowest terms (num / den).                                        *)
(*   - A dict is a function whose DOMAIN is its key set; a set is a set;   *)
(*     a list is a sequence.  Python's None is the value None.             *)
(***************************************************************************)
EXTENDS Integers, Sequences, FiniteSets, TLC

VARIABLES
    flags,               \* FeatureFlagManager.flags : key -> FeatureFlag
    engine_evaluations,  \* TargetingEngine.evaluations
    activated_switches,  \* KillSwitch.activated_switches
    experiments,         \* ABTestingEngine.experiments : exp_id -> dict
    now,                 \* datetime.now(), in hours
    rollout,             \* the rollout_gradually call in progress, or Idle
    threads,             \* the evaluate calls of the concurrent callers
    last,                \* the last completed call: operation, arguments, result
    calls,               \* history: the number of calls made
    killed,              \* history: keys of enabled flags activated, not deactivated since
    overridden,          \* history: keys update_flag re-enabled since activation
    pin,                 \* history: one earlier evaluation, kept for comparison
    observed             \* history: the variants assigned and credited so far

vars == <<flags, engine_evaluations, activated_switches, experiments, now,
          rollout, threads, last, calls, killed, overridden, pin, observed>>

-----------------------------------------------------------------------------
(* Bounds of the model *)

MaxCalls == 5      \* calls of the registry and the kill switch in one behaviour
MaxNow == 10       \* the clock stops advancing at this hour
MaxThreads == 2    \* concurrent callers of evaluate
MaxExperiments == 2  \* experiments created in one behaviour

-----------------------------------------------------------------------------
(* Values *)

None == "None"

EmptyDict == [a \in {} |-> None]

\* dict.get(key): None for a missing key
Get(d, a) == IF a \in DOMAIN d THEN d[a] ELSE None

ALL_USERS == "all_users"
PERCENTAGE == "percentage"
TARGETED == "targeted"
GRADUAL == "gradual"
CANARY == "canary"

RolloutStrategy == {ALL_USERS, PERCENTAGE, TARGETED, GRADUAL, CANARY}

Keys == {"new_ui", "premium_features"}

\* FeatureFlag(key=key, name=name, description=description) with the
\* dataclass defaults; created_at and updated_at default to datetime.now()
FeatureFlag(key, name, description, t) ==
    [key |-> key, name |-> name, description |-> description,
     enabled |-> FALSE,
     rollout_strategy |-> ALL_USERS,
     rollout_percentage |-> 0,
     target_users |-> {},
     target_groups |-> {},
     target_attributes |-> EmptyDict,
     created_at |-> t,
     updated_at |-> t,
     evaluations |-> 0,
     enabled_count |-> 0]

User(id, email, groups, attributes) ==
    [id |-> id, email |-> email, groups |-> groups, attributes |-> attributes]

Users ==
    { User("1", "user1@test.com", <<"free">>, EmptyDict),
      User("2", "user2@test.com", <<"premium">>, ("plan" :> "pro")) }

-----------------------------------------------------------------------------
(* TargetingEngine *)

\* int(hashlib.md5(s.encode()).hexdigest(), 16) % 100 for the strings the
\* model hashes (values computed with hashlib.md5)
md5_mod_100(s) ==
    CASE s = "new_ui:1" -> 62
      [] s = "new_ui:2" -> 0
      [] s = "new_ui:72" -> 5
      [] s = "new_ui:76" -> 4
      [] s = "new_ui:104" -> 99
      [] s = "premium_features:1" -> 92
      [] s = "premium_features:2" -> 58
      [] s = "exp-0:1" -> 46
      [] s = "exp-0:2" -> 87
      [] s = "exp-1:1" -> 76
      [] s = "exp-1:2" -> 35
      [] s = "exp-2:1" -> 45
      [] s = "exp-2:2" -> 24
      [] s = "exp-3:1" -> 4
      [] s = "exp-3:2" -> 21

\* f"{a}:{b}"
hash_input(a, b) == a \o ":" \o b

\* (hash_value % 100) / 100.0, in thousandths
bucket(a, b) == md5_mod_100(hash_input(a, b)) * 10

Min(a, b) == IF a < b THEN a ELSE b

Range(s) == {s[i] : i \in DOMAIN s}

_evaluate_targeted(flag, user) ==
    IF user.id \in flag.target_users THEN TRUE
    ELSE IF \E group \in Range(user.groups) : group \in flag.target_groups THEN TRUE
    ELSE \E attr \in DOMAIN flag.target_attributes :
            Get(user.attributes, attr) = flag.target_attributes[attr]

\* mutant: the bucket is salted with the flag's evaluation counter
_evaluate_percentage_salted(flag, user) ==
    bucket(flag.key, user.id) + flag.evaluations * 100 < flag.rollout_percentage

\* mutant: the comparison is turned round
_evaluate_percentage_gt(flag, user) ==
    bucket(flag.key, user.id) > flag.rollout_percentage

_evaluate_percentage(flag, user) ==
    bucket(flag.key, user.id) < flag.rollout_percentage

\* mutant: 1% per hour
gradual_target_slow(flag, t) == Min(1000, (t - flag.created_at) * 10)

\* elapsed_hours * 0.1, capped at 1.0
gradual_target(flag, t) == Min(1000, (t - flag.created_at) * 100)

_evaluate_gradual(flag, user, t) ==
    bucket(flag.key, user.id) < gradual_target(flag, t)

\* mutant: the 5% guard is missing
_evaluate_canary_unguarded(flag, user) ==
    _evaluate_percentage(flag, user)

_evaluate_canary(flag, user) ==
    _evaluate_percentage(flag, user) /\ flag.rollout_percentage <= 50

\* the strategy dispatch of evaluate
strategy_result(flag, user, t) ==
    CASE flag.rollout_strategy = ALL_USERS -> TRUE
      [] flag.rollout_strategy = TARGETED -> _evaluate_targeted(flag, user)
      [] flag.rollout_strategy = PERCENTAGE -> _evaluate_percentage(flag, user)
      [] flag.rollout_strategy = GRADUAL -> _evaluate_gradual(flag, user, t)
      [] flag.rollout_strategy = CANARY -> _evaluate_canary(flag, user)
      [] OTHER -> FALSE

\* mutant: nobody is let in once the flag has been enabled for one call
evaluate_result_capped(flag, user, t) ==
    IF ~flag.enabled THEN FALSE
    ELSE strategy_result(flag, user, t) /\ flag.enabled_count < 1

\* the value evaluate returns
evaluate_result(flag, user, t) ==
    IF ~flag.enabled THEN FALSE ELSE strategy_result(flag, user, t)

\* mutant: a disabled flag returns before it is counted
evaluate_flag_uncounted(flag, user, t) ==
    IF ~flag.enabled THEN flag
    ELSE [flag EXCEPT !.evaluations = @ + 1,
                      !.enabled_count = IF evaluate_result(flag, user, t)
                                        THEN @ + 1 ELSE @]

\* the flag as evaluate leaves it
evaluate_flag(flag, user, t) ==
    [flag EXCEPT !.evaluations = @ + 1,
                 !.enabled_count = IF evaluate_result(flag, user, t) THEN @ + 1 ELSE @]

-----------------------------------------------------------------------------
(* Calls and their results *)

Idle == [key |-> None]

\* the record of a completed call
Call(op, key, user, ret) ==
    [op |-> op, key |-> key, user |-> user, ret |-> ret, at |-> now]

NoUser == "-"

-----------------------------------------------------------------------------
(* FeatureFlagManager *)

Names == [new_ui |-> "New UI Design", premium_features |-> "Premium Features"]

Descriptions == [new_ui |-> "Redesigned user interface",
                 premium_features |-> "Advanced premium features"]

\* self.flags[key] = flag
Store(key, flag) ==
    [k \in DOMAIN flags \cup {key} |-> IF k = key THEN flag ELSE flags[k]]

create_flag(key, name, description) ==
    /\ rollout = Idle
    /\ flags' = Store(key, FeatureFlag(key, name, description, now))
    /\ last' = Call("create_flag", key, NoUser, None)
    /\ UNCHANGED <<engine_evaluations, activated_switches, experiments, now,
                   rollout, threads>>

\* for k, v in kwargs.items(): if hasattr(flag, k): setattr(flag, k, v)
\* flag.updated_at = datetime.now()
apply_kwargs(flag, kwargs, t) ==
    [f \in DOMAIN flag |->
        IF f = "updated_at" THEN t
        ELSE IF f \in DOMAIN kwargs THEN kwargs[f]
        ELSE flag[f]]

update_flag(key, kwargs) ==
    /\ rollout = Idle
    /\ IF key \notin DOMAIN flags
       THEN /\ last' = Call("update_flag", key, NoUser, FALSE)
            /\ UNCHANGED flags
       ELSE /\ flags' = Store(key, apply_kwargs(flags[key], kwargs, now))
            /\ last' = Call("update_flag", key, NoUser, TRUE)
    /\ UNCHANGED <<engine_evaluations, activated_switches, experiments, now,
                   rollout, threads>>

is_enabled(key, user) ==
    /\ rollout = Idle
    /\ IF key \notin DOMAIN flags
       THEN /\ last' = Call("is_enabled", key, user.id, FALSE)
            /\ UNCHANGED <<flags, engine_evaluations>>
       ELSE /\ engine_evaluations' = engine_evaluations + 1
            /\ flags' = Store(key, evaluate_flag(flags[key], user, now))
            /\ last' = Call("is_enabled", key, user.id,
                            evaluate_result(flags[key], user, now))
    /\ UNCHANGED <<activated_switches, experiments, now, rollout, threads>>

\* rollout_gradually up to the loop: the lookup, the strategy and `current`
rollout_gradually(key, target_percentage, step) ==
    /\ rollout = Idle
    /\ IF key \notin DOMAIN flags
       THEN /\ last' = Call("rollout_gradually", key, NoUser, None)
            /\ UNCHANGED <<flags, rollout>>
       ELSE /\ flags' = Store(key, [flags[key] EXCEPT !.rollout_strategy = PERCENTAGE])
            /\ rollout' = [key |-> key, target_percentage |-> target_percentage,
                           step |-> step,
                           current |-> flags[key].rollout_percentage]
            /\ UNCHANGED last
    /\ UNCHANGED <<engine_evaluations, activated_switches, experiments, now, threads>>

\* one test of `while current < target_percentage` and, when it holds, one
\* pass of the body; otherwise the call returns
rollout_loop ==
    /\ rollout # Idle
    /\ IF rollout.current < rollout.target_percentage
       THEN LET current == Min(rollout.current + rollout.step,
                               rollout.target_percentage)
            IN  /\ rollout' = [rollout EXCEPT !.current = current]
                /\ flags' = Store(rollout.key,
                        [flags[rollout.key] EXCEPT !.rollout_percentage = current])
                /\ UNCHANGED last
       ELSE /\ rollout' = Idle
            /\ last' = Call("rollout_gradually", rollout.key, NoUser, None)
            /\ UNCHANGED flags
    /\ UNCHANGED <<engine_evaluations, activated_switches, experiments, now, threads>>

-----------------------------------------------------------------------------
(* KillSwitch *)

\* mutant: the activation is logged and the flag left as it is
activate_logged_only(flag_key, reason) ==
    /\ rollout = Idle
    /\ IF flag_key \in DOMAIN flags
       THEN /\ activated_switches' = Append(activated_switches,
                    [flag |-> flag_key, reason |-> reason, timestamp |-> now])
            /\ last' = Call("activate", flag_key, NoUser, TRUE)
            /\ UNCHANGED flags
       ELSE /\ last' = Call("activate", flag_key, NoUser, FALSE)
            /\ UNCHANGED <<flags, activated_switches>>
    /\ UNCHANGED <<engine_evaluations, experiments, now, rollout, threads>>

activate(flag_key, reason) ==
    /\ rollout = Idle
    /\ IF flag_key \in DOMAIN flags
       THEN /\ flags' = Store(flag_key, [flags[flag_key] EXCEPT !.enabled = FALSE])
            /\ activated_switches' = Append(activated_switches,
                    [flag |-> flag_key, reason |-> reason, timestamp |-> now])
            /\ last' = Call("activate", flag_key, NoUser, TRUE)
       ELSE /\ last' = Call("activate", flag_key, NoUser, FALSE)
            /\ UNCHANGED <<flags, activated_switches>>
    /\ UNCHANGED <<engine_evaluations, experiments, now, rollout, threads>>

\* mutant: deactivating a flag takes its records out of the log
deactivate_clearing(flag_key) ==
    /\ rollout = Idle
    /\ IF flag_key \in DOMAIN flags
       THEN /\ flags' = Store(flag_key, [flags[flag_key] EXCEPT !.enabled = TRUE])
            /\ activated_switches' =
                  SelectSeq(activated_switches, LAMBDA r : r.flag # flag_key)
            /\ last' = Call("deactivate", flag_key, NoUser, TRUE)
       ELSE /\ last' = Call("deactivate", flag_key, NoUser, FALSE)
            /\ UNCHANGED <<flags, activated_switches>>
    /\ UNCHANGED <<engine_evaluations, experiments, now, rollout, threads>>

deactivate(flag_key) ==
    /\ rollout = Idle
    /\ IF flag_key \in DOMAIN flags
       THEN /\ flags' = Store(flag_key, [flags[flag_key] EXCEPT !.enabled = TRUE])
            /\ last' = Call("deactivate", flag_key, NoUser, TRUE)
       ELSE /\ last' = Call("deactivate", flag_key, NoUser, FALSE)
            /\ UNCHANGED flags
    /\ UNCHANGED <<engine_evaluations, activated_switches, experiments, now,
                   rollout, threads>>

-----------------------------------------------------------------------------
(* The clock *)

TickHours == {10}

\* time passes between two calls
Tick(d) ==
    /\ rollout = Idle
    /\ now + d <= MaxNow
    /\ now' = now + d
    /\ UNCHANGED <<flags, engine_evaluations, activated_switches, experiments,
                   rollout, threads, last>>

-----------------------------------------------------------------------------
(* Inputs *)

\* the keyword arguments of the update_flag calls: one configuration of each
\* rollout strategy, the switch, the percentage, the counters, the key and a
\* name that is no attribute of FeatureFlag
Kwargs ==
    { ("enabled" :> TRUE),
      ("enabled" :> FALSE),
      ("enabled" :> TRUE) @@ ("rollout_strategy" :> PERCENTAGE)
          @@ ("rollout_percentage" :> 700),
      ("enabled" :> TRUE) @@ ("rollout_strategy" :> TARGETED)
          @@ ("target_groups" :> {"premium", "enterprise"}),
      ("enabled" :> TRUE) @@ ("rollout_strategy" :> TARGETED)
          @@ ("target_users" :> {"1"}),
      ("enabled" :> TRUE) @@ ("rollout_strategy" :> TARGETED)
          @@ ("target_attributes" :> ("beta" :> None)),
      ("enabled" :> TRUE) @@ ("rollout_strategy" :> GRADUAL),
      ("enabled" :> TRUE) @@ ("rollout_strategy" :> CANARY)
          @@ ("rollout_percentage" :> 50),
      ("rollout_percentage" :> 1500),
      ("evaluations" :> 0),
      ("enabled_count" :> 1),
      ("key" :> "premium_features"),
      ("color" :> "blue") }

Reasons == {"Performance issues detected"}

Targets == {700, 1500}

Steps == {500, 0}

-----------------------------------------------------------------------------
(* The registry, the kill switch and the clock, called from one thread.    *)
(* The history variables are kept here, beside the calls: `calls` counts    *)
(* them, `killed` and `overridden` follow the kill switch, and `pin` keeps  *)
(* one evaluation of an existing flag (any one: the choice is free) to      *)
(* compare the later ones with                                              *)

NoPin == [key |-> None]

\* the flag without its two counters
Uncounted(flag) == [flag EXCEPT !.evaluations = 0, !.enabled_count = 0]

Pinned(key, user) ==
    [key |-> key, user |-> user.id, flag |-> Uncounted(flags[key]), at |-> now,
     n |-> engine_evaluations, ret |-> evaluate_result(flags[key], user, now)]

Init ==
    /\ flags = EmptyDict
    /\ engine_evaluations = 0
    /\ activated_switches = <<>>
    /\ experiments = EmptyDict
    /\ now = 0
    /\ rollout = Idle
    /\ threads = EmptyDict
    /\ last = Call("init", None, NoUser, None)
    /\ calls = 0
    /\ killed = {}
    /\ overridden = {}
    /\ pin = NoPin
    /\ observed = {}

Begin ==
    /\ calls < MaxCalls
    /\ calls' = calls + 1

CreateFlag ==
    /\ Begin
    /\ \E key \in Keys : create_flag(key, Names[key], Descriptions[key])
    /\ UNCHANGED <<killed, overridden, pin, observed>>

UpdateFlag ==
    /\ Begin
    /\ \E key \in Keys, kwargs \in Kwargs :
          /\ update_flag(key, kwargs)
          /\ overridden' = IF /\ last'.ret
                              /\ "enabled" \in DOMAIN kwargs
                              /\ kwargs["enabled"]
                           THEN overridden \cup {key} ELSE overridden
    /\ UNCHANGED <<killed, pin, observed>>

IsEnabled ==
    /\ Begin
    /\ \E key \in Keys, user \in Users :
          /\ is_enabled(key, user)
          /\ pin' \in {pin} \cup
                      (IF key \in DOMAIN flags /\ pin = NoPin
                       THEN {Pinned(key, user)} ELSE {})
    /\ UNCHANGED <<killed, overridden, observed>>

RolloutGradually ==
    /\ Begin
    /\ \E key \in Keys, target_percentage \in Targets, step \in Steps :
          rollout_gradually(key, target_percentage, step)
    /\ UNCHANGED <<killed, overridden, pin, observed>>

RolloutLoop ==
    /\ rollout_loop
    /\ UNCHANGED <<calls, killed, overridden, pin, observed>>

Activate ==
    /\ Begin
    /\ \E flag_key \in Keys, reason \in Reasons :
          /\ activate(flag_key, reason)
          /\ killed' = IF last'.ret /\ flags[flag_key].enabled
                       THEN killed \cup {flag_key} ELSE killed
          /\ overridden' = IF last'.ret THEN overridden \ {flag_key} ELSE overridden
    /\ UNCHANGED <<pin, observed>>

Deactivate ==
    /\ Begin
    /\ \E flag_key \in Keys :
          /\ deactivate(flag_key)
          /\ killed' = killed \ {flag_key}
    /\ UNCHANGED <<overridden, pin, observed>>

Clock ==
    /\ \E d \in TickHours : Tick(d)
    /\ UNCHANGED <<calls, killed, overridden, pin, observed>>

Next ==
    \/ CreateFlag
    \/ UpdateFlag
    \/ IsEnabled
    \/ RolloutGradually
    \/ RolloutLoop
    \/ Activate
    \/ Deactivate
    \/ Clock

Spec == Init /\ [][Next]_vars

-----------------------------------------------------------------------------
(* Properties of the registry and the kill switch (specification Spec) *)

UserOf(id) == CHOOSE u \in Users : u.id = id

\* the last call was an evaluation of a flag of the registry, and no call has
\* begun since: the flag is as the evaluation left it
Evaluated ==
    /\ last.op = "is_enabled"
    /\ last.key \in DOMAIN flags
    /\ rollout = Idle

\* the rollout parameters of a flag
Params(flag) ==
    <<flag.enabled, flag.rollout_strategy, flag.rollout_percentage,
      flag.target_users, flag.target_groups, flag.target_attributes>>

\* the pinned evaluation was one of the same flag for the same user, made
\* before the last one
PinnedEarlier ==
    /\ Evaluated
    /\ pin # NoPin
    /\ pin.key = last.key
    /\ pin.user = last.user
    /\ pin.flag.key = flags[last.key].key
    /\ pin.n < engine_evaluations - 1

\* C1 as stated: once activate has returned true for an enabled flag, every
\* evaluation of that flag returns false for as long as deactivate has not
\* been called for it, whatever else is called.
C1_KillSwitchUntilDeactivate ==
    (Evaluated /\ last.key \in killed) => last.ret = FALSE

\* C1, amended: once activate has returned true for an enabled flag, every
\* evaluation of that flag returns false for as long as neither deactivate
\* nor an update_flag with enabled=True has been called for it.
C1_KillSwitch ==
    (Evaluated /\ last.key \in killed \ overridden) => last.ret = FALSE

\* a killed flag whose strategy would let the user in is evaluated: false
C1_Witness ==
    /\ Evaluated
    /\ last.key \in killed \ overridden
    /\ flags[last.key].rollout_strategy = PERCENTAGE
    /\ strategy_result(flags[last.key], UserOf(last.user), last.at)
    /\ last.ret = FALSE

\* C3: every flag of the registry has enabled_count <= evaluations.
C3_EnabledCountBound ==
    \A key \in DOMAIN flags : flags[key].enabled_count <= flags[key].evaluations

\* C4: one evaluation of an existing flag adds 1 to its evaluations, also when
\* the flag is disabled (and then returns false); adds 1 to its enabled_count
\* iff it returns true; and changes no other field, no other flag, nothing else.
C4_EvaluateEffect ==
    [][\A key \in Keys, user \in Users :
        (is_enabled(key, user) /\ key \in DOMAIN flags)
        => LET f == flags[key]
               g == flags'[key]
           IN  /\ DOMAIN flags' = DOMAIN flags
               /\ g.evaluations = f.evaluations + 1
               /\ ~f.enabled => last'.ret = FALSE
               /\ g.enabled_count = f.enabled_count + (IF last'.ret THEN 1 ELSE 0)
               /\ Uncounted(g) = Uncounted(f)
               /\ \A k \in DOMAIN flags \ {key} : flags'[k] = flags[k]
               /\ UNCHANGED <<activated_switches, experiments, now, rollout>>]_vars

\* a disabled flag was evaluated beside another flag: counted, not enabled
C4_Witness ==
    /\ Evaluated
    /\ ~flags[last.key].enabled
    /\ strategy_result(flags[last.key], UserOf(last.user), last.at)
    /\ last.ret = FALSE
    /\ flags[last.key].evaluations = 1
    /\ flags[last.key].enabled_count = 0
    /\ DOMAIN flags = Keys

\* C5 as stated: for one flag and user, two evaluations under the same rollout
\* parameters return the same decision, for every strategy and whatever time
\* lies between them.
C5_StableWhileParamsUnchanged ==
    (PinnedEarlier /\ Params(pin.flag) = Params(flags[last.key]))
        => last.ret = pin.ret

\* C5, amended: for one flag and user, two evaluations under the same rollout
\* parameters return the same decision, provided that under GRADUAL the time
\* elapsed since created_at is the same at both.
C5_Stable ==
    (/\ PinnedEarlier
     /\ Params(pin.flag) = Params(flags[last.key])
     /\ flags[last.key].rollout_strategy = GRADUAL
           => last.at - flags[last.key].created_at = pin.at - pin.flag.created_at)
        => last.ret = pin.ret

\* a percentage flag let the same user in twice, at two different times
C5_Witness ==
    /\ PinnedEarlier
    /\ Params(pin.flag) = Params(flags[last.key])
    /\ flags[last.key].rollout_strategy = PERCENTAGE
    /\ pin.at < last.at
    /\ last.ret = TRUE

\* C6: two evaluations of flags that agree in every field but the counters,
\* for the same user at the same time, return the same boolean.
C6_Deterministic ==
    (/\ PinnedEarlier
     /\ pin.flag = Uncounted(flags[last.key])
     /\ pin.at = last.at)
        => last.ret = pin.ret

\* the same flag state was evaluated twice at one time, the counters differing
C6_Witness ==
    /\ PinnedEarlier
    /\ pin.flag = Uncounted(flags[last.key])
    /\ pin.at = last.at
    /\ flags[last.key].rollout_strategy = GRADUAL
    /\ flags[last.key].enabled_count = 2
    /\ last.ret = TRUE

-----------------------------------------------------------------------------
(* The targeting engine alone: evaluate applied to one flag, the flag, the  *)
(* time and the user drawn from bounded sets (specification SpecEval)       *)

EvalUsers ==
    Users \cup
    { User("72", "user72@test.com", <<>>, EmptyDict),
      User("76", "user76@test.com", <<"free", "enterprise">>, ("beta" :> "yes")),
      User("104", "user104@test.com", <<"free">>, ("plan" :> "basic")) }

EvalPercentages == {-100, 0, 40, 50, 60, 620, 630, 990, 1000, 1500}

EvalTargets ==
    { [users |-> {}, groups |-> {}, attributes |-> EmptyDict],
      [users |-> {"1", "72"}, groups |-> {}, attributes |-> EmptyDict],
      [users |-> {}, groups |-> {"premium", "enterprise"}, attributes |-> EmptyDict],
      [users |-> {}, groups |-> {}, attributes |-> ("plan" :> "pro")],
      [users |-> {}, groups |-> {}, attributes |-> ("beta" :> None)] }

EvalCreated == {0, 1}

EvalTimes == {0, 1, 6, 7, 10, 11, 30}

\* the flags update_flag can make of a created flag
EvalFlags ==
    { [FeatureFlag("new_ui", Names["new_ui"], Descriptions["new_ui"], c)
         EXCEPT !.enabled = e, !.rollout_strategy = s, !.rollout_percentage = p,
                !.target_users = tg.users, !.target_groups = tg.groups,
                !.target_attributes = tg.attributes] :
        e \in BOOLEAN, s \in RolloutStrategy, p \in EvalPercentages,
        tg \in EvalTargets, c \in EvalCreated }

InitEval ==
    /\ flags \in {("new_ui" :> f) : f \in EvalFlags}
    /\ engine_evaluations = 0
    /\ activated_switches = <<>>
    /\ experiments = EmptyDict
    /\ now \in EvalTimes
    /\ rollout = Idle
    /\ threads = EmptyDict
    /\ last = Call("init", None, NoUser, None)
    /\ calls = 0
    /\ killed = {}
    /\ overridden = {}
    /\ pin = NoPin
    /\ observed = {}

Evaluate ==
    /\ Begin
    /\ \E user \in EvalUsers : is_enabled("new_ui", user)
    /\ UNCHANGED <<killed, overridden, pin, observed>>

NextEval == Evaluate

SpecEval == InitEval /\ [][NextEval]_vars

EvalUserOf(id) == CHOOSE u \in EvalUsers : u.id = id

\* the flag the last call evaluated, as it was then but for its counters
EvaluatedFlag == flags[last.key]

\* C7: under PERCENTAGE, a user an enabled flag lets in at rollout_percentage
\* p1 is let in at every p2 > p1.
C7_PercentageMonotone ==
    (/\ Evaluated
     /\ EvaluatedFlag.enabled
     /\ EvaluatedFlag.rollout_strategy = PERCENTAGE
     /\ last.ret = TRUE)
        => \A p2 \in EvalPercentages :
              EvaluatedFlag.rollout_percentage < p2
                 => evaluate_result([EvaluatedFlag EXCEPT !.rollout_percentage = p2],
                                    EvalUserOf(last.user), last.at)

\* a user in bucket 0.62 is let in at 0.63, which is not the largest percentage
C7_Witness ==
    /\ Evaluated
    /\ EvaluatedFlag.enabled
    /\ EvaluatedFlag.rollout_strategy = PERCENTAGE
    /\ EvaluatedFlag.rollout_percentage = 630
    /\ last.user = "1"
    /\ last.ret = TRUE

\* C8: under CANARY an enabled flag lets a user in only if the PERCENTAGE
\* check of the same flag and user does, and lets nobody in when
\* rollout_percentage > 0.05.
C8_CanarySubset ==
    (/\ Evaluated
     /\ EvaluatedFlag.enabled
     /\ EvaluatedFlag.rollout_strategy = CANARY)
        => /\ last.ret = TRUE
                => evaluate_result([EvaluatedFlag EXCEPT !.rollout_strategy = PERCENTAGE],
                                   EvalUserOf(last.user), last.at)
           /\ EvaluatedFlag.rollout_percentage > 50 => last.ret = FALSE

\* a canary flag at 0.05 lets the user of bucket 0.04 in
C8_Witness ==
    /\ Evaluated
    /\ EvaluatedFlag.enabled
    /\ EvaluatedFlag.rollout_strategy = CANARY
    /\ EvaluatedFlag.rollout_percentage = 50
    /\ last.user = "76"
    /\ last.ret = TRUE

\* C9: under GRADUAL, from 10 hours after created_at on, the target is 1.0 and
\* an enabled flag lets every user in, as PERCENTAGE at 1.0 does, whatever
\* rollout_percentage holds.
C9_GradualSaturation ==
    (/\ Evaluated
     /\ EvaluatedFlag.enabled
     /\ EvaluatedFlag.rollout_strategy = GRADUAL
     /\ last.at - EvaluatedFlag.created_at >= 10)
        => /\ gradual_target(EvaluatedFlag, last.at) = 1000
           /\ last.ret = TRUE
           /\ last.ret = evaluate_result(
                  [EvaluatedFlag EXCEPT !.rollout_strategy = PERCENTAGE,
                                        !.rollout_percentage = 1000],
                  EvalUserOf(last.user), last.at)

\* exactly 10 hours after creation the user of bucket 0.99 is let in by a
\* gradual flag whose rollout_percentage is 0
C9_Witness ==
    /\ Evaluated
    /\ EvaluatedFlag.enabled
    /\ EvaluatedFlag.rollout_strategy = GRADUAL
    /\ EvaluatedFlag.rollout_percentage = 0
    /\ last.at - EvaluatedFlag.created_at = 10
    /\ last.user = "104"
    /\ last.ret = TRUE

-----------------------------------------------------------------------------
(* evaluate called from concurrent threads on one flag (specification       *)
(* SpecConc).  No lock is taken in evaluate: `x += 1` on an attribute is a  *)
(* load, an add and a store, and another thread can run between the load    *)
(* and the store.                                                           *)

Threads == 1 .. MaxThreads

ConcKey == "new_ui"

\* a thread about to call evaluate(flag, user)
Caller(user) == [pc |-> "start", user |-> user, tmp |-> 0, result |-> None]

At(t, pc) == t \in DOMAIN threads /\ threads[t].pc = pc

Goto(t, pc, tmp, result) ==
    threads' = [threads EXCEPT ![t] = [pc |-> pc, user |-> threads[t].user,
                                       tmp |-> tmp, result |-> result]]

\* self.evaluations += 1: the load
load_engine_evaluations(t) ==
    /\ At(t, "start")
    /\ Goto(t, "engine_loaded", engine_evaluations, None)
    /\ UNCHANGED <<flags, engine_evaluations, activated_switches, experiments,
                   now, rollout, last>>

\* self.evaluations += 1: the store
store_engine_evaluations(t) ==
    /\ At(t, "engine_loaded")
    /\ engine_evaluations' = threads[t].tmp + 1
    /\ Goto(t, "engine_stored", 0, None)
    /\ UNCHANGED <<flags, activated_switches, experiments, now, rollout, last>>

\* flag.evaluations += 1: the load
load_evaluations(t) ==
    /\ At(t, "engine_stored")
    /\ Goto(t, "evaluations_loaded", flags[ConcKey].evaluations, None)
    /\ UNCHANGED <<flags, engine_evaluations, activated_switches, experiments,
                   now, rollout, last>>

\* flag.evaluations += 1: the store
store_evaluations(t) ==
    /\ At(t, "evaluations_loaded")
    /\ flags' = Store(ConcKey,
                      [flags[ConcKey] EXCEPT !.evaluations = threads[t].tmp + 1])
    /\ Goto(t, "evaluations_stored", 0, None)
    /\ UNCHANGED <<engine_evaluations, activated_switches, experiments, now,
                   rollout, last>>

\* if not flag.enabled: return False; otherwise the strategy dispatch; a
\* false result is returned, a true one goes on to count
decide(t) ==
    /\ At(t, "evaluations_stored")
    /\ LET result == evaluate_result(flags[ConcKey], threads[t].user, now)
       IN  Goto(t, IF result THEN "decided" ELSE "done", 0, result)
    /\ UNCHANGED <<flags, engine_evaluations, activated_switches, experiments,
                   now, rollout, last>>

\* flag.enabled_count += 1: the load
load_enabled_count(t) ==
    /\ At(t, "decided")
    /\ Goto(t, "enabled_count_loaded", flags[ConcKey].enabled_count, TRUE)
    /\ UNCHANGED <<flags, engine_evaluations, activated_switches, experiments,
                   now, rollout, last>>

\* flag.enabled_count += 1: the store, and return result
store_enabled_count(t) ==
    /\ At(t, "enabled_count_loaded")
    /\ flags' = Store(ConcKey,
                      [flags[ConcKey] EXCEPT !.enabled_count = threads[t].tmp + 1])
    /\ Goto(t, "done", 0, TRUE)
    /\ UNCHANGED <<engine_evaluations, activated_switches, experiments, now,
                   rollout, last>>

\* the flag the threads evaluate: a created flag after one update_flag that
\* sets up a strategy (the counters are 0)
ConcFlags ==
    { apply_kwargs(FeatureFlag(ConcKey, Names[ConcKey], Descriptions[ConcKey], 0),
                   kwargs, 0) :
        kwargs \in {kw \in Kwargs : "enabled" \in DOMAIN kw} }

InitConc ==
    /\ flags \in {(ConcKey :> f) : f \in ConcFlags}
    /\ engine_evaluations = 0
    /\ activated_switches = <<>>
    /\ experiments = EmptyDict
    /\ now \in {0, MaxNow}
    /\ rollout = Idle
    /\ threads \in [Threads -> {Caller(user) : user \in Users}]
    /\ last = Call("init", None, NoUser, None)
    /\ calls = 0
    /\ killed = {}
    /\ overridden = {}
    /\ pin = NoPin
    /\ observed = {}

History == <<calls, killed, overridden, pin, observed>>

LoadEngineEvaluations ==
    (\E t \in Threads : load_engine_evaluations(t)) /\ UNCHANGED History

StoreEngineEvaluations ==
    (\E t \in Threads : store_engine_evaluations(t)) /\ UNCHANGED History

LoadEvaluations ==
    (\E t \in Threads : load_evaluations(t)) /\ UNCHANGED History

StoreEvaluations ==
    (\E t \in Threads : store_evaluations(t)) /\ UNCHANGED History

Decide ==
    (\E t \in Threads : decide(t)) /\ UNCHANGED History

LoadEnabledCount ==
    (\E t \in Threads : load_enabled_count(t)) /\ UNCHANGED History

StoreEnabledCount ==
    (\E t \in Threads : store_enabled_count(t)) /\ UNCHANGED History

NextConc ==
    \/ LoadEngineEvaluations
    \/ StoreEngineEvaluations
    \/ LoadEvaluations
    \/ StoreEvaluations
    \/ Decide
    \/ LoadEnabledCount
    \/ StoreEnabledCount

SpecConc == InitConc /\ [][NextConc]_vars

AllReturned == \A t \in Threads : At(t, "done")

\* C2: when the concurrent evaluate calls on one flag have all returned,
\* flag.evaluations is their number and flag.enabled_count the number of
\* them that returned true.
C2_CountersExact ==
    AllReturned =>
        /\ flags[ConcKey].evaluations = Cardinality(Threads)
        /\ flags[ConcKey].enabled_count =
              Cardinality({t \in Threads : threads[t].result = TRUE})

-----------------------------------------------------------------------------
(* ABTestingEngine (specification SpecAB) *)

\* f"exp-{n}"
ExpId(n) == "exp-" \o ToString(n)

\* self.experiments[exp_id] = exp
StoreExp(exp_id, exp) ==
    [e \in DOMAIN experiments \cup {exp_id} |->
        IF e = exp_id THEN exp ELSE experiments[e]]

create_experiment(name, flag_a, flag_b, split) ==
    LET exp_id == ExpId(Cardinality(DOMAIN experiments))
    IN  /\ experiments' = StoreExp(exp_id,
              [name |-> name, flag_a |-> flag_a, flag_b |-> flag_b,
               split |-> split,
               variant_a_count |-> 0, variant_b_count |-> 0,
               variant_a_conversions |-> 0, variant_b_conversions |-> 0])
        /\ last' = Call("create_experiment", exp_id, NoUser, exp_id)
        /\ UNCHANGED <<flags, engine_evaluations, activated_switches, now,
                       rollout, threads>>

\* mutant: the variants are dealt in turn
variant_in_turn(exp_id, user, exp) ==
    IF exp.variant_a_count <= exp.variant_b_count THEN "a" ELSE "b"

\* variant = 'a' if (hash_value % 100) / 100.0 < exp['split'] else 'b'
variant(exp_id, user, exp) ==
    IF bucket(exp_id, user.id) < exp.split THEN "a" ELSE "b"

\* mutant: an assignment is counted for both variants
counted_both(exp, v) ==
    [exp EXCEPT !.variant_a_count = @ + 1, !.variant_b_count = @ + 1]

\* mutant: the conversion is counted and the assignment made for it is not
converted_unassigned(exp, v) ==
    IF v = "a" THEN [exp EXCEPT !.variant_a_conversions = @ + 1,
                                !.variant_a_count = @ - 1]
    ELSE [exp EXCEPT !.variant_b_conversions = @ + 1,
                     !.variant_b_count = @ - 1]

\* exp['variant_a_count'] += 1, or b's
counted(exp, v) ==
    IF v = "a" THEN [exp EXCEPT !.variant_a_count = @ + 1]
    ELSE [exp EXCEPT !.variant_b_count = @ + 1]

\* exp['variant_a_conversions'] += 1, or b's
converted(exp, v) ==
    IF v = "a" THEN [exp EXCEPT !.variant_a_conversions = @ + 1]
    ELSE [exp EXCEPT !.variant_b_conversions = @ + 1]

assign_variant(exp_id, user) ==
    /\ IF exp_id \notin DOMAIN experiments
       THEN /\ last' = Call("assign_variant", exp_id, user.id, "a")
            /\ UNCHANGED experiments
       ELSE LET exp == experiments[exp_id]
                v == variant(exp_id, user, exp)
            IN  /\ experiments' = StoreExp(exp_id, counted(exp, v))
                /\ last' = Call("assign_variant", exp_id, user.id, v)
    /\ UNCHANGED <<flags, engine_evaluations, activated_switches, now,
                   rollout, threads>>

\* record_conversion, the assign_variant call it makes included
record_conversion(exp_id, user) ==
    /\ IF exp_id \notin DOMAIN experiments
       THEN UNCHANGED experiments
       ELSE LET exp == experiments[exp_id]
                v == variant(exp_id, user, exp)
            IN  experiments' = StoreExp(exp_id, converted(counted(exp, v), v))
    /\ last' = Call("record_conversion", exp_id, user.id, None)
    /\ UNCHANGED <<flags, engine_evaluations, activated_switches, now,
                   rollout, threads>>

RECURSIVE GCD(_, _)
GCD(a, b) == IF b = 0 THEN a ELSE GCD(b, a % b)

\* the quotient n / d of two integers, n >= 0 and d > 0, kept exact as a
\* fraction in lowest terms: the value of Python's `/`
Quotient(n, d) == [num |-> n \div GCD(n, d), den |-> d \div GCD(n, d)]

Max(a, b) == IF a > b THEN a ELSE b

Abs(n) == IF n < 0 THEN -n ELSE n

\* x > y for two quotients with positive denominators
Greater(x, y) == x.num * y.den > y.num * x.den

\* x == y for two quotients
Same(x, y) == x.num * y.den = y.num * x.den

\* exp['variant_a_conversions'] / max(exp['variant_a_count'], 1)
conv_rate(conversions, count) == Quotient(conversions, Max(count, 1))

\* the outcome of a call: the value it returns, or the exception it raises
Returns(value) == [raises |-> None, value |-> value]

Raises(exception) == [raises |-> exception, value |-> None]

\* abs(conv_rate_a - conv_rate_b) / max(conv_rate_a, conv_rate_b): float
\* division by 0.0 raises ZeroDivisionError
lift(conv_rate_a, conv_rate_b) ==
    LET greatest == IF Greater(conv_rate_b, conv_rate_a)
                    THEN conv_rate_b ELSE conv_rate_a
        difference == Abs(conv_rate_a.num * conv_rate_b.den
                            - conv_rate_b.num * conv_rate_a.den)
    IN  IF greatest.num = 0
        THEN Raises("ZeroDivisionError")
        ELSE Returns(Quotient(difference * greatest.den,
                              conv_rate_a.den * conv_rate_b.den * greatest.num))

\* mutant: variant a wins a tie
winner_on_tie(conv_rate_a, conv_rate_b) ==
    IF Greater(conv_rate_b, conv_rate_a) THEN "b" ELSE "a"

\* 'a' if conv_rate_a > conv_rate_b else 'b'
winner(conv_rate_a, conv_rate_b) ==
    IF Greater(conv_rate_a, conv_rate_b) THEN "a" ELSE "b"

\* what get_results(exp_id) returns or raises
get_results_outcome(exp_id) ==
    IF exp_id \notin DOMAIN experiments
    THEN Returns(EmptyDict)
    ELSE LET exp == experiments[exp_id]
             conv_rate_a == conv_rate(exp.variant_a_conversions, exp.variant_a_count)
             conv_rate_b == conv_rate(exp.variant_b_conversions, exp.variant_b_count)
             l == lift(conv_rate_a, conv_rate_b)
         IN  IF l.raises # None
             THEN l
             ELSE Returns(
                    [name |-> exp.name,
                     variant_a |-> [users |-> exp.variant_a_count,
                                    conversions |-> exp.variant_a_conversions,
                                    rate |-> conv_rate_a],
                     variant_b |-> [users |-> exp.variant_b_count,
                                    conversions |-> exp.variant_b_conversions,
                                    rate |-> conv_rate_b],
                     winner |-> winner(conv_rate_a, conv_rate_b),
                     lift |-> l.value])

get_results(exp_id) ==
    /\ last' = Call("get_results", exp_id, NoUser, get_results_outcome(exp_id))
    /\ UNCHANGED <<flags, engine_evaluations, activated_switches, experiments,
                   now, rollout, threads>>

Splits == {0, 300, 500, 1500}

\* the ids of the experiments that can exist, and one that never does
ExpIds == {ExpId(n) : n \in 0 .. MaxExperiments - 1} \cup {"exp-none"}

Seen(kind, exp_id, user, v) ==
    [kind |-> kind, exp |-> exp_id, user |-> user.id, variant |-> v]

\* the variant whose conversion counter the step has increased
Credited(exp_id) ==
    IF experiments'[exp_id].variant_a_conversions
          > experiments[exp_id].variant_a_conversions
    THEN "a" ELSE "b"

CreateExperiment ==
    /\ Begin
    /\ Cardinality(DOMAIN experiments) < MaxExperiments
    /\ \E split \in Splits :
          create_experiment("New Checkout Flow", "checkout_v1", "checkout_v2", split)
    /\ UNCHANGED <<killed, overridden, pin, observed>>

AssignVariant ==
    /\ Begin
    /\ \E exp_id \in ExpIds, user \in Users :
          /\ assign_variant(exp_id, user)
          /\ observed' = IF exp_id \in DOMAIN experiments
                         THEN observed \cup {Seen("assigned", exp_id, user, last'.ret)}
                         ELSE observed
    /\ UNCHANGED <<killed, overridden, pin>>

RecordConversion ==
    /\ Begin
    /\ \E exp_id \in ExpIds, user \in Users :
          /\ record_conversion(exp_id, user)
          /\ observed' = IF exp_id \in DOMAIN experiments
                         THEN observed \cup {Seen("credited", exp_id, user,
                                                  Credited(exp_id))}
                         ELSE observed
    /\ UNCHANGED <<killed, overridden, pin>>

GetResults ==
    /\ Begin
    /\ \E exp_id \in ExpIds : get_results(exp_id)
    /\ UNCHANGED <<killed, overridden, pin, observed>>

NextAB ==
    \/ CreateExperiment
    \/ AssignVariant
    \/ RecordConversion
    \/ GetResults

SpecAB == Init /\ [][NextAB]_vars

\* C10: for one experiment and user, every variant assign_variant has
\* returned and every variant record_conversion has credited is the same one.
C10_ExperimentConsistency ==
    \A x, y \in observed :
        (x.exp = y.exp /\ x.user = y.user) => x.variant = y.variant

\* a user was assigned b, the other user a, and a conversion of the first was
\* credited to b, all in one experiment
C10_Witness ==
    \E x, y, z \in observed :
        /\ x.kind = "assigned" /\ x.variant = "b"
        /\ y.kind = "credited" /\ y.exp = x.exp /\ y.user = x.user
        /\ z.kind = "assigned" /\ z.exp = x.exp /\ z.user # x.user
        /\ z.variant = "a"
        /\ experiments[x.exp].variant_b_count >= 2

\* the experiment of the last get_results call
Asked == experiments[last.key]

ResultsRead == last.op = "get_results" /\ last.key \in DOMAIN experiments

\* C11: get_results on an experiment whose two conversion rates are 0 returns
\* normally, with rate 0 for both variants and lift 0; it raises no error.
C11_ZeroDivisionSafe ==
    (/\ ResultsRead
     /\ Asked.variant_a_conversions = 0
     /\ Asked.variant_b_conversions = 0)
        => /\ last.ret.raises = None
           /\ last.ret.value.variant_a.rate.num = 0
           /\ last.ret.value.variant_b.rate.num = 0
           /\ last.ret.value.lift.num = 0

\* C12: in every reachable state every flag has its rollout_percentage in
\* [0, 1] and every experiment its split in [0, 1]: a value outside the range
\* is rejected by create_flag, update_flag, rollout_gradually and
\* create_experiment.
C12_ParameterRange ==
    /\ \A key \in DOMAIN flags :
          /\ flags[key].rollout_percentage >= 0
          /\ flags[key].rollout_percentage <= 1000
    /\ \A exp_id \in DOMAIN experiments :
          /\ experiments[exp_id].split >= 0
          /\ experiments[exp_id].split <= 1000

\* the log after the step starts with the log before it
LogKept ==
    /\ Len(activated_switches') >= Len(activated_switches)
    /\ SubSeq(activated_switches', 1, Len(activated_switches)) = activated_switches

\* the step is an activate call that returns true
Activated == \E flag_key \in Keys, reason \in Reasons :
                activate(flag_key, reason) /\ last'.ret = TRUE

\* C13: activate(key, reason) on an existing flag sets enabled = false, appends
\* exactly one record {flag, reason, timestamp} and returns true; activate or
\* deactivate on an absent key returns false and changes no flag and not the
\* log; deactivate on an existing flag sets enabled = true, returns true and
\* leaves the log as it is. Every step keeps the earlier records in place, and
\* the log, empty at first, gets one record longer exactly in the activate
\* calls that return true, so its length is their number.
C13_AuditLog ==
    [][/\ \A flag_key \in Keys, reason \in Reasons :
             activate(flag_key, reason) =>
                IF flag_key \in DOMAIN flags
                THEN /\ last'.ret = TRUE
                     /\ flags'[flag_key].enabled = FALSE
                     /\ Len(activated_switches') = Len(activated_switches) + 1
                     /\ activated_switches'[Len(activated_switches')] =
                           [flag |-> flag_key, reason |-> reason, timestamp |-> now]
                ELSE /\ last'.ret = FALSE
                     /\ UNCHANGED <<flags, activated_switches>>
       /\ \A flag_key \in Keys :
             deactivate(flag_key) =>
                IF flag_key \in DOMAIN flags
                THEN /\ last'.ret = TRUE
                     /\ flags'[flag_key].enabled = TRUE
                     /\ UNCHANGED activated_switches
                ELSE /\ last'.ret = FALSE
                     /\ UNCHANGED <<flags, activated_switches>>
       /\ LogKept
       /\ Len(activated_switches') =
             Len(activated_switches) + (IF Activated THEN 1 ELSE 0)]_vars

\* a flag was killed twice, an hour or more apart, and then deactivated, while
\* the other key has no flag
C13_Witness ==
    /\ last.op = "deactivate" /\ last.ret = TRUE
    /\ flags[last.key].enabled
    /\ DOMAIN flags # Keys
    /\ Len(activated_switches) = 2
    /\ activated_switches[1].flag = last.key
    /\ activated_switches[2].flag = last.key
    /\ activated_switches[1].timestamp < activated_switches[2].timestamp

\* C14: for every flag key, the evaluations and the enabled_count seen under
\* the key never decrease in any step of create_flag, update_flag, is_enabled,
\* rollout_gradually, activate and deactivate.
C14_MonotonicCounters ==
    [][\A key \in DOMAIN flags :
          /\ key \in DOMAIN flags'
          /\ flags'[key].evaluations >= flags[key].evaluations
          /\ flags'[key].enabled_count >= flags[key].enabled_count]_vars

\* the variants assign_variant returns for an experiment that exists
Variants == {"a", "b"}

\* C15: for an experiment id that was never created, assign_variant,
\* record_conversion and get_results raise nothing and report the absence as
\* an outcome the caller can tell from a successful one: assign_variant does
\* not answer with a variant, and get_results answers with no results.
C15_AbsentExperiment ==
    (last.key \notin DOMAIN experiments) =>
        /\ last.op = "assign_variant" => last.ret \notin Variants
        /\ last.op = "get_results" =>
              last.ret.raises = None /\ last.ret.value = EmptyDict

\* the user of the last call is among the flag's target users, or in one of
\* its target groups, or has one of its target attributes with an equal value
Targeted(flag, user) ==
    \/ user.id \in flag.target_users
    \/ \E group \in Range(user.groups) : group \in flag.target_groups
    \/ \E attr \in DOMAIN flag.target_attributes :
          /\ attr \in DOMAIN user.attributes
          /\ user.attributes[attr] = flag.target_attributes[attr]

\* C16: for an enabled TARGETED flag, evaluate returns true iff the user's id
\* is a target user, or one of the user's groups is a target group, or the
\* user has a target attribute with an equal value; an attribute the user
\* does not have is no match, whatever value the flag expects for it, and
\* empty target sets give false.
C16_TargetedMatch ==
    (/\ Evaluated
     /\ EvaluatedFlag.enabled
     /\ EvaluatedFlag.rollout_strategy = TARGETED)
        => (last.ret = TRUE <=> Targeted(EvaluatedFlag, EvalUserOf(last.user)))

-----------------------------------------------------------------------------
(* get_results over experiments with given counters (specification          *)
(* SpecResults)                                                             *)

\* the assignments and conversions of one variant: conversions <= count, as
\* record_conversion leaves them
VariantCounters ==
    { [count |-> 0, conversions |-> 0],
      [count |-> 1, conversions |-> 0],
      [count |-> 1, conversions |-> 1],
      [count |-> 2, conversions |-> 1],
      [count |-> 4, conversions |-> 2],
      [count |-> 3, conversions |-> 1],
      [count |-> 100, conversions |-> 10],
      [count |-> 100, conversions |-> 20] }

\* experiment exp-0 of create_experiment with the default split, after the
\* assign_variant and record_conversion calls that give it these counters
ExperimentWith(a, b) ==
    [name |-> "New Checkout Flow", flag_a |-> "checkout_v1",
     flag_b |-> "checkout_v2", split |-> 500,
     variant_a_count |-> a.count, variant_b_count |-> b.count,
     variant_a_conversions |-> a.conversions,
     variant_b_conversions |-> b.conversions]

InitResults ==
    /\ flags = EmptyDict
    /\ engine_evaluations = 0
    /\ activated_switches = <<>>
    /\ experiments \in {(ExpId(0) :> ExperimentWith(a, b)) :
                            a \in VariantCounters, b \in VariantCounters}
    /\ now = 0
    /\ rollout = Idle
    /\ threads = EmptyDict
    /\ last = Call("init", None, NoUser, None)
    /\ calls = 0
    /\ killed = {}
    /\ overridden = {}
    /\ pin = NoPin
    /\ observed = {}

NextResults == GetResults

SpecResults == InitResults /\ [][NextResults]_vars

\* conversions / max(count, 1) of the two variants of an experiment
RateA(exp) == Quotient(exp.variant_a_conversions, Max(exp.variant_a_count, 1))

RateB(exp) == Quotient(exp.variant_b_conversions, Max(exp.variant_b_count, 1))

\* |x - y| * z = w for quotients x, y, z, w
DifferenceTimes(x, y, z, w) ==
    Abs(x.num * y.den - y.num * x.den) * z.num * w.den
        = w.num * x.den * y.den * z.den

-----------------------------------------------------------------------------
(* The counters of the experiments (specification SpecAB) *)

\* the four counters of an experiment
Counters(exp) ==
    <<exp.variant_a_count, exp.variant_b_count,
      exp.variant_a_conversions, exp.variant_b_conversions>>

\* what a step adds to the four counters of an experiment
Added(exp_id) ==
    [i \in 1 .. 4 |-> Counters(experiments'[exp_id])[i]
                         - Counters(experiments[exp_id])[i]]

\* the step leaves every experiment but exp_id as it is, and of exp_id
\* everything but the counters
OnlyCounters(exp_id) ==
    /\ DOMAIN experiments' = DOMAIN experiments
    /\ \A e \in DOMAIN experiments \ {exp_id} : experiments'[e] = experiments[e]
    /\ \A f \in {"name", "flag_a", "flag_b", "split"} :
          experiments'[exp_id][f] = experiments[exp_id][f]

\* C18: each assign_variant call on an existing experiment adds exactly 1 to
\* the count of the variant it returns, on a repeated call for the same user
\* too, and changes no other counter; each record_conversion call on an
\* existing experiment adds exactly 1 to both the count and the conversions of
\* the user's variant and leaves the other variant's two counters unchanged.
C18_Counting ==
    [][(calls' = calls + 1 /\ last'.key \in DOMAIN experiments) =>
          /\ last'.op = "assign_variant" =>
                /\ OnlyCounters(last'.key)
                /\ Added(last'.key) = IF last'.ret = "a" THEN <<1, 0, 0, 0>>
                                                         ELSE <<0, 1, 0, 0>>
          /\ last'.op = "record_conversion" =>
                /\ OnlyCounters(last'.key)
                /\ Added(last'.key) =
                      IF variant(last'.key, UserOf(last'.user),
                                 experiments[last'.key]) = "a"
                      THEN <<1, 0, 1, 0>> ELSE <<0, 1, 0, 1>>]_vars

\* user 2 was assigned b twice and user 1 a once, and then a conversion of
\* user 2 was recorded: b has 3 assignments and 1 conversion
C18_Witness ==
    /\ last.op = "record_conversion" /\ last.user = "2"
    /\ last.key \in DOMAIN experiments
    /\ Counters(experiments[last.key]) = <<1, 3, 0, 1>>
    /\ \E x \in observed : x.kind = "assigned" /\ x.user = "2"
                              /\ x.exp = last.key /\ x.variant = "b"

\* C19: in every reachable state of create_experiment, assign_variant and
\* record_conversion calls, every experiment has variant_a_conversions <=
\* variant_a_count and variant_b_conversions <= variant_b_count.
C19_ConversionsBounded ==
    \A exp_id \in DOMAIN experiments :
        /\ experiments[exp_id].variant_a_conversions
              <= experiments[exp_id].variant_a_count
        /\ experiments[exp_id].variant_b_conversions
              <= experiments[exp_id].variant_b_count

\* one variant has only converting assignments, two of them, and the other a
\* conversion and an assignment more
C19_Witness ==
    \E exp_id \in DOMAIN experiments :
        /\ experiments[exp_id].variant_a_conversions = 2
        /\ experiments[exp_id].variant_a_count = 2
        /\ experiments[exp_id].variant_b_conversions = 1
        /\ experiments[exp_id].variant_b_count = 2

-----------------------------------------------------------------------------
(* rollout_gradually, run to its end (specification SpecRollout): a call    *)
(* that has started keeps taking the steps of its loop                      *)

NextRollout ==
    \/ CreateFlag
    \/ RolloutGradually
    \/ RolloutLoop

SpecRollout == Init /\ [][NextRollout]_vars /\ WF_vars(RolloutLoop)

\* C20: rollout_gradually(key, target_percentage, step) terminates for every
\* existing key and every target_percentage and step: a call that has entered
\* its loop returns.
C20_RolloutTerminates == (rollout # Idle) ~> (rollout = Idle)

====
